---------------------------- MODULE Spec2Model ----------------------------
(***************************************************************************)
(* The HTTP client of src/lib/services/http.ts (class HttpClient): the     *)
(* three interceptor registries, the request pipeline behind               *)
(* get/post/put/patch/delete, upload and download, together with the       *)
(* persisted token store, the browser location and the notice surface the  *)
(* default interceptors act on.                                            *)
(*                                                                         *)
(* A call is suspended at each await of the source; one action is what     *)
(* runs between two suspensions.  Values thrown are Error-like objects     *)
(* [name, code, message]; "" stands for a missing (undefined) field.       *)
(***************************************************************************)
EXTENDS Integers, Sequences, FiniteSets, TLC

\* ------------------------------------------------------------------ bounds
MaxTimeout == 2    \* timeouts (constructor argument, override) are 0..MaxTimeout ticks
MaxAdded   == 1    \* add*Interceptor calls after construction

\* --------------------------------------------------------------- constants
Verbs == {"GET", "POST", "PUT", "PATCH", "DELETE"}

SERVER_ERROR  == "server error, retry later"
UNAUTHORIZED  == "unauthorized, log in again"
FORBIDDEN     == "forbidden"
UNKNOWN_ERROR == "unknown error, contact the administrator"
DOWNLOAD_FAILED == "file download failed"

HTTP_UNAUTHORIZED == 401
HTTP_FORBIDDEN    == 403

Undefined == ""                 \* a missing string field: falsy
NoTimeout == -1                 \* RequestConfig.timeout not given
NoStatus  == 0                  \* a value with no status field

Truthy(v) == v # Undefined      \* JavaScript truthiness of a string field

\* The functions a caller may register; the defaults are named apart.
DefaultRequest  == "defaultRequest"
DefaultResponse == "defaultResponse"
DefaultError    == "defaultError"
Fns == {"f1"}

Tokens   == {"t1", "t2"}
NoToken  == ""                  \* storageUtils.get gives null
Paths    == {"/login", "/users"}

\* ------------------------------------------------------------------ values
\* Errors a caller-supplied interceptor throws.
CustomErrors ==
  { [name |-> "Error", code |-> Undefined,  message |-> Undefined],
    [name |-> "Error", code |-> "E_CUSTOM", message |-> "boom"] }

\* fetch rejects with TypeError on a network failure and with the signal's
\* reason, a DOMException named TimeoutError (legacy code 23), on timeout.
NetworkFailure == [name |-> "TypeError", code |-> Undefined, message |-> "Failed to fetch"]
TimeoutFailure == [name |-> "TimeoutError", code |-> "23", message |-> "The operation was aborted due to timeout"]
JsonFailure    == [name |-> "SyntaxError", code |-> Undefined, message |-> "Unexpected end of JSON input"]
NoError        == [name |-> "none", code |-> Undefined, message |-> Undefined]

\* XMLHttpRequest.setRequestHeader on a request that is not open throws a
\* DOMException named InvalidStateError (legacy code 11).
InvalidStateFailure == [name |-> "InvalidStateError", code |-> "11", message |-> "The object's state must be OPENED."]
\* The errors upload and download make themselves.
InvalidJsonFailure    == [name |-> "Error", code |-> Undefined, message |-> "Invalid JSON response"]
UploadFailure         == [name |-> "Error", code |-> Undefined, message |-> "Upload failed"]
UploadStatusFailure(status) == [name |-> "Error", code |-> Undefined, message |-> "Upload failed with status " \o ToString(status)]
DownloadFailure       == [name |-> "Error", code |-> Undefined, message |-> "Download failed"]
\* A DOM call of download (appendChild, click, removeChild) or blob() failing.
BlobFailure == [name |-> "TypeError", code |-> Undefined, message |-> "Failed to read the body"]
DomFailure  == [name |-> "TypeError", code |-> Undefined, message |-> "Cannot read properties of null"]

HttpError(msg) == [name |-> "Error", code |-> Undefined, message |-> msg]

\* The Response Envelope the backend sends, and bodies on the wire: text that
\* parses to an envelope, or text that does not parse.
Envelope(success, message, data) ==
  [success |-> success, message |-> message, data |-> data]
NoEnvelope == Envelope(FALSE, Undefined, "none")
JsonBody(envelope) == [wellFormed |-> TRUE, json |-> envelope]
MalformedBody      == [wellFormed |-> FALSE, json |-> NoEnvelope]

\* What the server may answer.
Responses ==
  { [status |-> 200, body |-> JsonBody(Envelope(TRUE, Undefined, "d1"))],
    [status |-> 201, body |-> JsonBody(Envelope(TRUE, "created", "d2"))],
    [status |-> 200, body |-> MalformedBody],
    [status |-> 401, body |-> JsonBody(Envelope(FALSE, Undefined, Undefined))],
    [status |-> 403, body |-> JsonBody(Envelope(FALSE, "no permission", Undefined))],
    [status |-> 409, body |-> JsonBody(Envelope(FALSE, "email exists", Undefined))],
    [status |-> 500, body |-> JsonBody(Envelope(FALSE, Undefined, Undefined))],
    [status |-> 500, body |-> MalformedBody] }
NoResponse == [status |-> NoStatus, body |-> MalformedBody]

\* Response.ok
Ok(response) == response.status >= 200 /\ response.status < 300


\* --------------------------------------------------------------- the state
VARIABLES
  token,                 \* localStorage[STORAGE_KEYS.TOKEN], NoToken when absent
  pathname,              \* window.location.pathname
  clientTimeout,         \* HttpClient.timeout
  requestInterceptors,   \* HttpClient.requestInterceptors
  responseInterceptors,  \* HttpClient.responseInterceptors
  errorInterceptors,     \* HttpClient.errorInterceptors
  added,                 \* add*Interceptor calls made after construction
  call                   \* the operations in progress, by slot

vars == <<token, pathname, clientTimeout, requestInterceptors,
          responseInterceptors, errorInterceptors, added, call>>

\* The state of the code beside the client, each part idle while the client
\* is at work: the query-string functions, the useApi hook, the debouncer.
VARIABLES
  query,                 \* buildURL, urlUtils and userApi.getUsers at work
  hook,                  \* one mounted useApi
  debounced,             \* one function returned by debounce
  atStart,               \* history: the lengths of the registries when the
                         \* call in progress started
  throttled,             \* one function returned by throttle
  store                  \* the users route: mockUsers and the requests at work

NoQuery == [op |-> "none"]
NoHook  == [op |-> "none"]
NoDebounced == [op |-> "none"]
NoLengths == [request |-> 0, response |-> 0, error |-> 0]
NoThrottled == [op |-> "none"]
NoStore == [op |-> "none"]

others == <<query, hook, debounced, atStart, throttled, store>>
\* What a step of the query-string functions leaves alone.
besideQuery == <<vars, hook, debounced, atStart, throttled, store>>

\* ----------------------------------------------------- request descriptors
NoHeaders == [Authorization |-> Undefined, ContentType |-> Undefined]
NoConfig  == [method |-> Undefined, timeout |-> NoTimeout, headers |-> NoHeaders,
              tags |-> <<>>, data |-> Undefined]
NoOverrides == [method |-> Undefined, timeout |-> NoTimeout, headers |-> NoHeaders]

\* Request data: none, a plain object, a FormData.
PlainData == "object"
FormData  == "formdata"

\* get/post/put/patch/delete: { url, method: <verb>, params | data, ...config }.
\* A key present in the overrides replaces the one written before the spread.
VerbDescriptor(verb, data, overrides) ==
  [method  |-> IF Truthy(overrides.method) THEN overrides.method ELSE verb,
   timeout |-> overrides.timeout,
   headers |-> overrides.headers,
   tags    |-> <<>>,
   data    |-> data]

\* The default request interceptor, given what storageUtils.get returned.
DefaultRequestInterceptor(config, tok) ==
  IF Truthy(tok)
  THEN [config EXCEPT !.headers.Authorization = "Bearer " \o tok]
  ELSE config

\* A caller's request interceptor that returns: it marks the descriptor.
CustomRequestInterceptor(fn, config) ==
  [config EXCEPT !.tags = Append(@, fn)]

\* A variant that ignores the override.
EffectiveTimeoutOfClient(timeout, default) == default

\* finalConfig.timeout || this.timeout
EffectiveTimeout(timeout, default) ==
  IF timeout = NoTimeout \/ timeout = 0 THEN default ELSE timeout

\* JSON.stringify of the request data
Stringify(data) == "json:" \o data

NoFetch == [method |-> Undefined, headers |-> NoHeaders, tags |-> <<>>,
            timeout |-> NoTimeout, body |-> Undefined]

\* The RequestInit handed to fetch, built from the final descriptor.
FetchOptions(finalConfig, default) ==
  LET method  == IF Truthy(finalConfig.method) THEN finalConfig.method ELSE "GET"
      hasBody == Truthy(finalConfig.data) /\ method \in {"POST", "PUT", "PATCH"}
      ctype   == IF hasBody /\ finalConfig.data = FormData THEN Undefined
                 ELSE IF Truthy(finalConfig.headers.ContentType)
                      THEN finalConfig.headers.ContentType
                      ELSE "application/json"
  IN [method  |-> method,
      headers |-> [Authorization |-> finalConfig.headers.Authorization,
                   ContentType   |-> ctype],
      tags    |-> finalConfig.tags,
      timeout |-> EffectiveTimeout(finalConfig.timeout, default),
      body    |-> IF ~hasBody THEN Undefined
                  ELSE IF finalConfig.data = FormData THEN FormData
                  ELSE Stringify(finalConfig.data)]

\* ------------------------------------------------------------------ errors
NoApiError == [code |-> Undefined, message |-> Undefined, details |-> NoError]

\* The ApiError built in the catch block of request().
MakeApiError(error) ==
  [code    |-> IF Truthy(error.code) THEN error.code ELSE "UNKNOWN_ERROR",
   message |-> IF Truthy(error.message) THEN error.message ELSE UNKNOWN_ERROR,
   details |-> error]

\* error.status: the field when the object has one
StatusOf(error) ==
  IF "status" \in DOMAIN error THEN error.status ELSE NoStatus

\* pathname.includes("/login")
IncludesLogin(path) == path = "/login"

\* A variant without the check of response.ok.
DefaultResponseOutcomeAnyStatus(response) ==
  IF ~response.body.wellFormed
  THEN [ok |-> FALSE, value |-> NoEnvelope, error |-> JsonFailure]
  ELSE [ok |-> TRUE, value |-> response.body.json, error |-> NoError]

\* A variant that loses the data of the envelope.
DefaultResponseOutcomeNoData(response) ==
  IF ~response.body.wellFormed
  THEN [ok |-> FALSE, value |-> NoEnvelope, error |-> JsonFailure]
  ELSE IF ~Ok(response)
  THEN [ok |-> FALSE, value |-> NoEnvelope,
        error |-> HttpError(IF Truthy(response.body.json.message)
                            THEN response.body.json.message
                            ELSE SERVER_ERROR)]
  ELSE [ok |-> TRUE, value |-> [response.body.json EXCEPT !.data = Undefined],
        error |-> NoError]

\* What the default response interceptor's promise settles with once the body
\* of a Response has been read: response.json().then(...).
DefaultResponseOutcome(response) ==
  IF ~response.body.wellFormed
  THEN [ok |-> FALSE, value |-> NoEnvelope, error |-> JsonFailure]
  ELSE IF ~Ok(response)
  THEN [ok |-> FALSE, value |-> NoEnvelope,
        error |-> HttpError(IF Truthy(response.body.json.message)
                            THEN response.body.json.message
                            ELSE SERVER_ERROR)]
  ELSE [ok |-> TRUE, value |-> response.body.json, error |-> NoError]

\* ------------------------------------------------------------------- calls
IdleCall ==
  [op        |-> "none",      \* "verb", "upload", "download"
   pc        |-> "idle",
   verb      |-> Undefined,   \* the binding that was called
   config    |-> NoConfig,    \* the descriptor the binding assembled
   cur       |-> NoConfig,    \* finalConfig
   i         |-> 0,           \* position in the interceptor sequence
   pending   |-> NoConfig,    \* what the awaited request interceptor returns
   reqCalls  |-> <<>>,        \* request interceptors invoked: [i, fn, input]
   reqRets   |-> <<>>,        \* request interceptors returned: [i, output]
   reqCount  |-> 0,           \* requestInterceptors.length when the loop ended
   sent      |-> NoFetch,     \* the RequestInit of the fetch
   fetches   |-> 0,           \* transport calls issued
   elapsed   |-> 0,           \* ticks since the fetch
   aborted   |-> FALSE,       \* the timeout signal has fired
   response  |-> NoResponse,  \* the Response fetch resolved with
   raw       |-> FALSE,       \* finalResponse is still the Response object
   value     |-> NoEnvelope,  \* finalResponse once parsed
   respCalls |-> <<>>,        \* response interceptors invoked: [i, fn]
   failure   |-> NoError,     \* what the catch block caught
   apiError  |-> NoApiError,  \* the ApiError built from it
   errCalls  |-> <<>>,        \* error interceptors invoked: [i, fn, arg]
   errRets   |-> <<>>,        \* and how each ended: [i, threw, error]
   errCount  |-> 0,           \* errorInterceptors.length when the loop ended
   notices   |-> <<>>,        \* message.error texts emitted by this call
   redirects |-> 0,           \* assignments to window.location.href
   rejection |-> NoApiError,  \* the value the promise rejected with
   settles   |-> 0,           \* times the promise settled
   opened    |-> FALSE,       \* upload: xhr.open has been called
   created   |-> 0,           \* download: object URLs created
   revoked   |-> 0,           \* download: object URLs revoked
   clicked   |-> FALSE]       \* download: the link was clicked

Settled(st) == st.pc \in {"resolved", "rejected"}
Free(st)    == st.pc = "idle" \/ Settled(st)

\* A world is a call with the shared state its interceptors act on.
World(st) == [st |-> st, token |-> token, pathname |-> pathname]

\* The default error interceptor, invoked as interceptor i with the call's
\* ApiError: it acts on the status, emits a notice and throws the error again.
DefaultErrorInterceptor(w, i) ==
  LET error  == w.st.apiError
      status == StatusOf(error)
      goes   == status = HTTP_UNAUTHORIZED /\ ~IncludesLogin(w.pathname)
      notice == IF status = HTTP_UNAUTHORIZED THEN UNAUTHORIZED
                ELSE IF status = HTTP_FORBIDDEN THEN FORBIDDEN
                ELSE IF Truthy(error.message) THEN error.message
                ELSE UNKNOWN_ERROR
  IN [st |-> [w.st EXCEPT
                !.errCalls  = Append(@, [i |-> i, fn |-> DefaultError, arg |-> error]),
                !.errRets   = Append(@, [i |-> i, threw |-> TRUE, error |-> error]),
                !.notices   = Append(@, notice),
                !.redirects = IF goes THEN @ + 1 ELSE @],
      token    |-> IF status = HTTP_UNAUTHORIZED THEN NoToken ELSE w.token,
      pathname |-> IF goes THEN "/login" ELSE w.pathname]

\* A variant that throws what the last error interceptor threw.
RejectValueOfInterceptor(st) ==
  IF st.errRets # <<>> /\ st.errRets[Len(st.errRets)].threw
  THEN st.errRets[Len(st.errRets)].error
  ELSE st.apiError

\* throw apiError, at the end of the catch block
RejectValue(st) == st.apiError

\* A variant in which a throwing interceptor ends the loop: only the first
\* entry of the registry sees the error.
ApplyErrorInterceptorsFirstOnly(w, i) ==
  LET seen == IF i = 1 /\ errorInterceptors[1] = DefaultError
              THEN DefaultErrorInterceptor(w, 1)
              ELSE w
  IN [seen EXCEPT !.st.pc = "rejected",
                  !.st.i = i,
                  !.st.errCount = Len(errorInterceptors),
                  !.st.rejection = RejectValue(w.st),
                  !.st.settles = @ + 1]

\* applyErrorInterceptors from interceptor i on: an interceptor that throws at
\* once is passed over in the same turn, one that returns a promise is awaited.
RECURSIVE ApplyErrorInterceptors(_, _)
ApplyErrorInterceptors(w, i) ==
  IF i > Len(errorInterceptors)
  THEN [w EXCEPT !.st.pc = "rejected",
                 !.st.i = i,
                 !.st.errCount = Len(errorInterceptors),
                 !.st.rejection = RejectValue(w.st),
                 !.st.settles = @ + 1]
  ELSE IF errorInterceptors[i] = DefaultError
  THEN ApplyErrorInterceptors(DefaultErrorInterceptor(w, i), i + 1)
  ELSE [w EXCEPT !.st.pc = "errAwait",
                 !.st.i = i,
                 !.st.errCalls = Append(@, [i |-> i, fn |-> errorInterceptors[i],
                                            arg |-> w.st.apiError])]

\* A variant that reads the token store again when the fetch is issued.
FetchWithStoredToken(st) ==
  [st EXCEPT !.pc = "fetch",
             !.reqCount = Len(requestInterceptors),
             !.sent = FetchOptions(DefaultRequestInterceptor(
                        [st.cur EXCEPT !.headers.Authorization = Undefined], token),
                        clientTimeout),
             !.fetches = @ + 1,
             !.elapsed = 0]

\* Steps 2 to 5 of request(): one fetch with the options of the final descriptor.
Fetch(st) ==
  [st EXCEPT !.pc = "fetch",
             !.reqCount = Len(requestInterceptors),
             !.sent = FetchOptions(st.cur, clientTimeout),
             !.fetches = @ + 1,
             !.elapsed = 0]

\* A variant that fetches once more before it gives up.
CatchRetrying(w, error) ==
  IF w.st.fetches = 1 /\ w.st.pc = "fetch"
  THEN [w EXCEPT !.st = Fetch(w.st)]
  ELSE ApplyErrorInterceptors(
         [w EXCEPT !.st.failure = error, !.st.apiError = MakeApiError(error)], 1)

\* The catch block of request(): build the ApiError, run the error
\* interceptors, throw the ApiError.
Catch(w, error) ==
  ApplyErrorInterceptors(
    [w EXCEPT !.st.failure = error, !.st.apiError = MakeApiError(error)], 1)

\* A variant that hands every interceptor the descriptor of the binding.
ApplyRequestInterceptorsUnchained(st, i, tok) ==
  IF i > Len(requestInterceptors)
  THEN Fetch(st)
  ELSE LET fn == requestInterceptors[i]
       IN [st EXCEPT
             !.pc = "reqAwait",
             !.i = i,
             !.reqCalls = Append(@, [i |-> i, fn |-> fn, input |-> st.config]),
             !.pending = IF fn = DefaultRequest
                         THEN DefaultRequestInterceptor(st.config, tok)
                         ELSE CustomRequestInterceptor(fn, st.config)]

\* applyRequestInterceptors from interceptor i on: invoke it on finalConfig and
\* await what it returns, or go on to the fetch when none is left.
ApplyRequestInterceptors(st, i, tok) ==
  IF i > Len(requestInterceptors)
  THEN Fetch(st)
  ELSE LET fn == requestInterceptors[i]
       IN [st EXCEPT
             !.pc = "reqAwait",
             !.i = i,
             !.reqCalls = Append(@, [i |-> i, fn |-> fn, input |-> st.cur]),
             !.pending = IF fn = DefaultRequest
                         THEN DefaultRequestInterceptor(st.cur, tok)
                         ELSE CustomRequestInterceptor(fn, st.cur)]

\* A variant that applies the first entry of the registry alone.
ApplyResponseInterceptorsFirstOnly(st, i) ==
  IF i > 1
  THEN [st EXCEPT !.pc = "resolved", !.i = i, !.settles = @ + 1]
  ELSE [st EXCEPT !.pc = "respAwait",
                  !.i = i,
                  !.respCalls = Append(@, [i |-> i, fn |-> responseInterceptors[i]])]

\* applyResponseInterceptors from interceptor i on; the call resolves with
\* finalResponse when none is left.
ApplyResponseInterceptors(st, i) ==
  IF i > Len(responseInterceptors)
  THEN [st EXCEPT !.pc = "resolved", !.i = i, !.settles = @ + 1]
  ELSE [st EXCEPT !.pc = "respAwait",
                  !.i = i,
                  !.respCalls = Append(@, [i |-> i, fn |-> responseInterceptors[i]])]

\* The awaited response interceptor is the default one reading a body.
ReadingBody(st) ==
  /\ st.pc = "respAwait"
  /\ st.raw
  /\ responseInterceptors[st.i] = DefaultResponse

\* The signal of AbortSignal.timeout has fired or is due.
TimedOut(st) == st.elapsed >= st.sent.timeout

\* The transport of the call is at work: the fetch is pending or a body is
\* being read.
InFlight(st) == st.pc = "fetch" \/ ReadingBody(st)

Commit(c, w) ==
  /\ call' = [call EXCEPT ![c] = w.st]
  /\ token' = w.token
  /\ pathname' = w.pathname

\* ------------------------------------------------------ upload and download
\* The executor of upload's promise: the listeners are attached, the token is
\* read and set as a header, then the request is opened and sent.  Setting a
\* header on a request that is not open throws, which rejects the promise.
Upload(st, tok) ==
  IF Truthy(tok)
  THEN [st EXCEPT !.pc = "rejected", !.failure = InvalidStateFailure,
                  !.rejection = InvalidStateFailure, !.settles = @ + 1]
  ELSE [st EXCEPT !.pc = "xhr",
                  !.opened = TRUE,
                  !.sent = [NoFetch EXCEPT !.method = "POST", !.body = FormData],
                  !.fetches = @ + 1]

\* The load listener of upload.
UploadLoad(st, response) ==
  IF response.status >= 200 /\ response.status < 300
  THEN IF response.body.wellFormed
       THEN [st EXCEPT !.pc = "resolved", !.response = response,
                       !.value = response.body.json, !.settles = @ + 1]
       ELSE [st EXCEPT !.pc = "rejected", !.response = response,
                       !.failure = InvalidJsonFailure,
                       !.rejection = InvalidJsonFailure, !.settles = @ + 1]
  ELSE [st EXCEPT !.pc = "rejected", !.response = response,
                  !.failure = UploadStatusFailure(response.status),
                  !.rejection = UploadStatusFailure(response.status),
                  !.settles = @ + 1]

\* `Bearer ${storageUtils.get(STORAGE_KEYS.TOKEN)}`: null prints as "null".
DownloadAuthorization(tok) ==
  "Bearer " \o (IF tok = NoToken THEN "null" ELSE tok)

\* The catch block of download: one notice, and the error is thrown again.
DownloadCatch(st, error) ==
  [st EXCEPT !.pc = "rejected", !.failure = error, !.rejection = error,
             !.notices = Append(@, DOWNLOAD_FAILED), !.settles = @ + 1]

\* download once the blob is there: the object URL is created, the link is
\* attached, clicked and removed, the URL is revoked; failAt names the DOM call
\* that throws, if one does.
DownloadSave(st, failAt) ==
  LET made == [st EXCEPT !.created = @ + 1,
                         !.clicked = failAt \in {"none", "removeChild"}]
  IN IF failAt = "none"
     THEN [made EXCEPT !.pc = "resolved", !.revoked = @ + 1, !.settles = @ + 1]
     ELSE DownloadCatch(made, DomFailure)

DomCalls == {"appendChild", "click", "removeChild"}

\* ------------------------------------------------------------------ inputs
\* The overrides argument of a verb binding.
Overrides ==
  {NoOverrides, [NoOverrides EXCEPT !.method = "DELETE"]}
    \cup {[NoOverrides EXCEPT !.timeout = t] : t \in 0..MaxTimeout}

\* The verb calls made: each binding without overrides, with the data it
\* takes, and get with each of the overrides.
VerbCalls ==
  {[verb |-> v, data |-> Undefined, overrides |-> NoOverrides] : v \in Verbs}
    \cup {[verb |-> v, data |-> PlainData, overrides |-> NoOverrides] :
            v \in {"POST", "PUT", "PATCH"}}
    \cup {[verb |-> "POST", data |-> FormData, overrides |-> NoOverrides]}
    \cup {[verb |-> "GET", data |-> Undefined, overrides |-> ov] : ov \in Overrides}

\* What an error interceptor of the caller throws.
ErrorInterceptorFailure == [name |-> "Error", code |-> "E_HANDLER", message |-> "handler failed"]

\* ------------------------------------------------------------ construction
\* new HttpClient(baseURL, timeout): the three default interceptors are the
\* first entry of each registry.
Init ==
  /\ token \in {NoToken} \cup Tokens
  /\ pathname \in Paths
  /\ clientTimeout = MaxTimeout
  /\ requestInterceptors = <<DefaultRequest>>
  /\ responseInterceptors = <<DefaultResponse>>
  /\ errorInterceptors = <<DefaultError>>
  /\ added = 0
  /\ call = [c \in {1} |-> IdleCall]
  /\ query = NoQuery
  /\ hook = NoHook
  /\ debounced = NoDebounced
  /\ atStart = NoLengths
  /\ throttled = NoThrottled
  /\ store = NoStore

\* ----------------------------------------------------------------- actions
AddRequestInterceptor(fn) ==
  /\ added < MaxAdded
  /\ requestInterceptors' = Append(requestInterceptors, fn)
  /\ added' = added + 1
  /\ UNCHANGED <<token, pathname, clientTimeout, responseInterceptors,
                 errorInterceptors, call>>

\* A variant that puts the function in front of the registry.
AddResponseInterceptorInFront(fn) ==
  /\ added < MaxAdded
  /\ responseInterceptors' = <<fn>> \o responseInterceptors
  /\ added' = added + 1
  /\ UNCHANGED <<token, pathname, clientTimeout, requestInterceptors,
                 errorInterceptors, call>>

AddResponseInterceptor(fn) ==
  /\ added < MaxAdded
  /\ responseInterceptors' = Append(responseInterceptors, fn)
  /\ added' = added + 1
  /\ UNCHANGED <<token, pathname, clientTimeout, requestInterceptors,
                 errorInterceptors, call>>

AddErrorInterceptor(fn) ==
  /\ added < MaxAdded
  /\ errorInterceptors' = Append(errorInterceptors, fn)
  /\ added' = added + 1
  /\ UNCHANGED <<token, pathname, clientTimeout, requestInterceptors,
                 responseInterceptors, call>>

\* storageUtils.set(STORAGE_KEYS.TOKEN, t) by the application (a login).
SetToken(t) ==
  /\ token # t
  /\ token' = t
  /\ UNCHANGED <<pathname, clientTimeout, requestInterceptors,
                 responseInterceptors, errorInterceptors, added, call>>

\* storageUtils.remove(STORAGE_KEYS.TOKEN) by the application (a logout).
RemoveToken ==
  /\ token # NoToken
  /\ token' = NoToken
  /\ UNCHANGED <<pathname, clientTimeout, requestInterceptors,
                 responseInterceptors, errorInterceptors, added, call>>

Registries == <<requestInterceptors, responseInterceptors, errorInterceptors>>

\* http.get / post / put / patch / delete: the binding assembles the descriptor
\* and request() runs up to its first await, inside the first request interceptor.
StartVerb(c, verb, data, overrides) ==
  /\ Free(call[c])
  /\ LET config == VerbDescriptor(verb, data, overrides)
         st == [IdleCall EXCEPT !.op = "verb", !.verb = verb,
                                !.config = config, !.cur = config]
     IN call' = [call EXCEPT ![c] = ApplyRequestInterceptors(st, 1, token)]
  /\ UNCHANGED <<token, pathname, clientTimeout, Registries, added>>

\* The awaited request interceptor returned: its result is the new finalConfig
\* and the loop goes on.
RequestInterceptorReturns(c) ==
  /\ call[c].pc = "reqAwait"
  /\ LET st == [call[c] EXCEPT
                  !.cur = call[c].pending,
                  !.reqRets = Append(@, [i |-> call[c].i, output |-> call[c].pending])]
     IN call' = [call EXCEPT ![c] = ApplyRequestInterceptors(st, st.i + 1, token)]
  /\ UNCHANGED <<token, pathname, clientTimeout, Registries, added>>

\* The awaited request interceptor, one of the caller's, threw.
RequestInterceptorThrows(c, error) ==
  /\ call[c].pc = "reqAwait"
  /\ requestInterceptors[call[c].i] # DefaultRequest
  /\ Commit(c, Catch(World(call[c]), error))
  /\ UNCHANGED <<clientTimeout, Registries, added>>

\* Time passes for a call whose transport is at work and not yet timed out.
Tick(c) ==
  /\ InFlight(call[c])
  /\ ~TimedOut(call[c])
  /\ call' = [call EXCEPT ![c].elapsed = @ + 1]
  /\ UNCHANGED <<token, pathname, clientTimeout, Registries, added>>

\* The server's response arrives in time: fetch resolves and the response
\* interceptors start on the Response.
Respond(c, response) ==
  /\ call[c].pc = "fetch"
  /\ ~TimedOut(call[c])
  /\ LET st == [call[c] EXCEPT !.response = response, !.raw = TRUE]
     IN call' = [call EXCEPT ![c] = ApplyResponseInterceptors(st, 1)]
  /\ UNCHANGED <<token, pathname, clientTimeout, Registries, added>>

\* The transport fails: fetch rejects with a TypeError.
NetworkFails(c) ==
  /\ call[c].pc = "fetch"
  /\ ~TimedOut(call[c])
  /\ Commit(c, Catch(World(call[c]), NetworkFailure))
  /\ UNCHANGED <<clientTimeout, Registries, added>>

\* The timeout signal fires: the fetch, or the reading of the body, is aborted
\* and rejects with the signal's reason.
TimeoutFires(c) ==
  /\ InFlight(call[c])
  /\ TimedOut(call[c])
  /\ Commit(c, Catch(World([call[c] EXCEPT !.aborted = TRUE]), TimeoutFailure))
  /\ UNCHANGED <<clientTimeout, Registries, added>>

\* The default response interceptor's promise settles: the body has been read
\* (or the value was no Response and is passed on).
DefaultResponseSettles(c) ==
  /\ call[c].pc = "respAwait"
  /\ responseInterceptors[call[c].i] = DefaultResponse
  /\ call[c].raw => ~TimedOut(call[c])
  /\ LET st == call[c]
         out == DefaultResponseOutcome(st.response)
     IN IF ~st.raw
        THEN Commit(c, World(ApplyResponseInterceptors(st, st.i + 1)))
        ELSE IF out.ok
        THEN Commit(c, World(ApplyResponseInterceptors(
                 [st EXCEPT !.raw = FALSE, !.value = out.value], st.i + 1)))
        ELSE Commit(c, Catch(World(st), out.error))
  /\ UNCHANGED <<clientTimeout, Registries, added>>

\* A caller's response interceptor returns what it was given.
ResponseInterceptorReturns(c) ==
  /\ call[c].pc = "respAwait"
  /\ responseInterceptors[call[c].i] # DefaultResponse
  /\ call' = [call EXCEPT ![c] = ApplyResponseInterceptors(call[c], call[c].i + 1)]
  /\ UNCHANGED <<token, pathname, clientTimeout, Registries, added>>

\* A caller's response interceptor throws.
ResponseInterceptorThrows(c, error) ==
  /\ call[c].pc = "respAwait"
  /\ responseInterceptors[call[c].i] # DefaultResponse
  /\ Commit(c, Catch(World(call[c]), error))
  /\ UNCHANGED <<clientTimeout, Registries, added>>

\* The awaited error interceptor, one of the caller's, returns or throws; either
\* way the loop goes on with the same ApiError.
ErrorInterceptorSettles(c, threw, error) ==
  /\ call[c].pc = "errAwait"
  /\ LET st == [call[c] EXCEPT
                  !.errRets = Append(@, [i |-> call[c].i, threw |-> threw,
                                         error |-> error])]
     IN Commit(c, ApplyErrorInterceptors(World(st), st.i + 1))
  /\ UNCHANGED <<clientTimeout, Registries, added>>

\* http.upload(url, file): the executor runs at once.
StartUpload(c) ==
  /\ Free(call[c])
  /\ call' = [call EXCEPT ![c] = Upload([IdleCall EXCEPT !.op = "upload"], token)]
  /\ UNCHANGED <<token, pathname, clientTimeout, Registries, added>>

\* The load event of the upload's XMLHttpRequest.
UploadLoads(c, response) ==
  /\ call[c].pc = "xhr"
  /\ call' = [call EXCEPT ![c] = UploadLoad(call[c], response)]
  /\ UNCHANGED <<token, pathname, clientTimeout, Registries, added>>

\* The error event of the upload's XMLHttpRequest.
UploadErrors(c) ==
  /\ call[c].pc = "xhr"
  /\ call' = [call EXCEPT ![c] = [call[c] EXCEPT
                !.pc = "rejected", !.failure = UploadFailure,
                !.rejection = UploadFailure, !.settles = @ + 1]]
  /\ UNCHANGED <<token, pathname, clientTimeout, Registries, added>>

\* http.download(url, filename): up to the await of fetch.
StartDownload(c) ==
  /\ Free(call[c])
  /\ call' = [call EXCEPT ![c] = [IdleCall EXCEPT
                !.op = "download", !.pc = "dlFetch",
                !.sent = [NoFetch EXCEPT !.method = "GET",
                            !.headers.Authorization = DownloadAuthorization(token)],
                !.fetches = @ + 1]]
  /\ UNCHANGED <<token, pathname, clientTimeout, Registries, added>>

\* The download's fetch resolves: a response that is not ok is thrown as an
\* error, otherwise the blob is awaited.
DownloadResponds(c, response) ==
  /\ call[c].pc = "dlFetch"
  /\ LET st == [call[c] EXCEPT !.response = response]
     IN call' = [call EXCEPT ![c] = IF ~Ok(response)
                                    THEN DownloadCatch(st, DownloadFailure)
                                    ELSE [st EXCEPT !.pc = "dlBlob"]]
  /\ UNCHANGED <<token, pathname, clientTimeout, Registries, added>>

\* The download's fetch or its response.blob() rejects.
DownloadTransportFails(c) ==
  /\ call[c].pc \in {"dlFetch", "dlBlob"}
  /\ call' = [call EXCEPT ![c] = DownloadCatch(call[c],
                IF call[c].pc = "dlFetch" THEN NetworkFailure ELSE BlobFailure)]
  /\ UNCHANGED <<token, pathname, clientTimeout, Registries, added>>

\* The blob is there and download saves it.
DownloadSaves(c, failAt) ==
  /\ call[c].pc = "dlBlob"
  /\ call' = [call EXCEPT ![c] = DownloadSave(call[c], failAt)]
  /\ UNCHANGED <<token, pathname, clientTimeout, Registries, added>>

Next ==
  \/ UNCHANGED others /\ \E fn \in Fns : AddRequestInterceptor(fn)
  \/ UNCHANGED others /\ \E fn \in Fns : AddResponseInterceptor(fn)
  \/ UNCHANGED others /\ \E fn \in Fns : AddErrorInterceptor(fn)
  \/ UNCHANGED others /\ \E t \in Tokens : SetToken(t)
  \/ UNCHANGED others /\ RemoveToken
  \/ UNCHANGED others /\ \E c \in DOMAIN call : \E v \in VerbCalls :
                         StartVerb(c, v.verb, v.data, v.overrides)
  \/ UNCHANGED others /\ \E c \in DOMAIN call : RequestInterceptorReturns(c)
  \/ UNCHANGED others /\ \E c \in DOMAIN call : \E e \in CustomErrors : RequestInterceptorThrows(c, e)
  \/ UNCHANGED others /\ \E c \in DOMAIN call : Tick(c)
  \/ UNCHANGED others /\ \E c \in DOMAIN call : \E r \in Responses : Respond(c, r)
  \/ UNCHANGED others /\ \E c \in DOMAIN call : NetworkFails(c)
  \/ UNCHANGED others /\ \E c \in DOMAIN call : TimeoutFires(c)
  \/ UNCHANGED others /\ \E c \in DOMAIN call : DefaultResponseSettles(c)
  \/ UNCHANGED others /\ \E c \in DOMAIN call : ResponseInterceptorReturns(c)
  \/ UNCHANGED others /\ \E c \in DOMAIN call : \E e \in CustomErrors : ResponseInterceptorThrows(c, e)
  \/ UNCHANGED others /\ \E c \in DOMAIN call : ErrorInterceptorSettles(c, FALSE, NoError)
  \/ UNCHANGED others /\ \E c \in DOMAIN call : ErrorInterceptorSettles(c, TRUE, ErrorInterceptorFailure)
  \/ UNCHANGED others /\ \E c \in DOMAIN call : StartUpload(c)
  \/ UNCHANGED others /\ \E c \in DOMAIN call : \E r \in Responses : UploadLoads(c, r)
  \/ UNCHANGED others /\ \E c \in DOMAIN call : UploadErrors(c)
  \/ UNCHANGED others /\ \E c \in DOMAIN call : StartDownload(c)
  \/ UNCHANGED others /\ \E c \in DOMAIN call : \E r \in Responses : DownloadResponds(c, r)
  \/ UNCHANGED others /\ \E c \in DOMAIN call : DownloadTransportFails(c)
  \/ UNCHANGED others /\ \E c \in DOMAIN call : \E failAt \in DomCalls \cup {"none"} :
                         DownloadSaves(c, failAt)

Spec == Init /\ [][Next]_vars

\* ------------------------------------------------------------------ claims
VerbCall(st) == st.op = "verb"
Failed(st)   == st.failure # NoError

C2_RequestInterceptorsInOrder ==
  \A c \in DOMAIN call :
    LET st == call[c]
        n  == Len(st.reqCalls)
        m  == Len(st.reqRets)
    IN VerbCall(st) =>
      /\ n >= 1
      /\ st.reqCalls[1].fn = DefaultRequest
      /\ st.reqCalls[1].input = st.config
      /\ \A k \in 1..n : st.reqCalls[k].i = k /\ st.reqCalls[k].fn = requestInterceptors[k]
      /\ \A k \in 1..m : st.reqRets[k].i = k
      /\ m <= n /\ n <= m + 1
      /\ n = m + 1 => (st.pc = "reqAwait" \/ (Failed(st) /\ st.fetches = 0))
      /\ st.pc = "reqAwait" => n = m + 1
      /\ \A k \in 1..(n - 1) : st.reqCalls[k + 1].input = st.reqRets[k].output
      /\ st.fetches > 0 =>
           /\ n = st.reqCount /\ m = st.reqCount
           /\ st.sent.headers.Authorization = st.reqRets[m].output.headers.Authorization
           /\ st.sent.tags = st.reqRets[m].output.tags
           /\ st.sent.method = st.reqRets[m].output.method

\* A call went through the default interceptor, which added the token, and one
\* interceptor of the caller, and was sent.
C2_Witness ==
  \E c \in DOMAIN call :
    /\ VerbCall(call[c])
    /\ call[c].fetches = 1
    /\ call[c].reqCount = 2
    /\ call[c].sent.tags = <<"f1">>
    /\ call[c].sent.headers.Authorization = "Bearer t1"

Notices(st) == {st.notices[k] : k \in 1..Len(st.notices)}
Answered(st) == st.response # NoResponse

\* C3 (as claimed): when a verb call rejects after the server answered 401, the
\* token has been removed from the store, the location is the login view after
\* at most one redirect, and the 'unauthorized' notice was emitted.
C3_UnauthorizedClearsToken ==
  [][\A c \in DOMAIN call :
       ( /\ VerbCall(call'[c])
         /\ call'[c].pc = "rejected" /\ call[c].pc # "rejected"
         /\ call'[c].response.status = HTTP_UNAUTHORIZED )
       => /\ token' = NoToken
          /\ IncludesLogin(pathname')
          /\ call'[c].redirects <= 1
          /\ UNAUTHORIZED \in Notices(call'[c])]_vars

\* C4 (as claimed): every operation that rejected, upload and download
\* included, passed the error it rejects with to the error interceptors.
C4_EveryRejectionIntercepted ==
  \A c \in DOMAIN call :
    call[c].pc = "rejected" =>
      /\ Len(call[c].errCalls) >= 1
      /\ \A k \in 1..Len(call[c].errCalls) : call[c].errCalls[k].arg = call[c].rejection

\* C4 (amended): a verb call that rejected has passed the error it rejects with
\* to every error interceptor registered when the loop ended, and each of them
\* has ended; upload and download reject with an error that no error
\* interceptor was given.
C4_VerbRejectionIntercepted ==
  \A c \in DOMAIN call :
    LET st == call[c] IN
    st.pc = "rejected" =>
      /\ VerbCall(st) =>
           /\ st.errCount >= 1
           /\ Len(st.errCalls) = st.errCount
           /\ Len(st.errRets) = st.errCount
           /\ \A k \in 1..st.errCount :
                /\ st.errCalls[k].fn = errorInterceptors[k]
                /\ st.errCalls[k].arg = st.rejection
      /\ ~VerbCall(st) => st.errCalls = <<>> /\ st.rejection = st.failure

\* A verb call whose body did not parse rejected past two error interceptors,
\* the second of which returned.
C4_Witness ==
  \E c \in DOMAIN call :
    /\ VerbCall(call[c])
    /\ call[c].pc = "rejected"
    /\ call[c].errCount = 2
    /\ call[c].failure = JsonFailure
    /\ ~call[c].errRets[2].threw

\* C5: a verb call whose response has a status outside 200..299 and a body
\* that parses, and whose transport was not aborted, never resolves; it rejects
\* with the message of the body when that is not empty and with the generic
\* server-error message otherwise.
C5_NonSuccessStatusRejects ==
  \A c \in DOMAIN call :
    LET st == call[c] IN
    ( /\ VerbCall(st) /\ Answered(st) /\ ~st.aborted
      /\ ~(st.response.status \in 200..299)
      /\ st.response.body.wellFormed )
    => /\ st.pc \in {"respAwait", "errAwait", "rejected"}
       /\ st.pc = "respAwait" => st.raw /\ st.i = 1
       /\ st.pc = "rejected" =>
            st.rejection.message =
              (IF st.response.body.json.message # ""
               THEN st.response.body.json.message
               ELSE SERVER_ERROR)

\* The server answered 409 with the message "email exists" and the call
\* rejected with that message.
C5_Witness ==
  \E c \in DOMAIN call :
    /\ VerbCall(call[c])
    /\ call[c].pc = "rejected"
    /\ call[c].response.status = 409
    /\ call[c].rejection.message = "email exists"

\* C6: with only the default interceptors, a verb call that settled after a
\* response with a status in 200..299 and a body that parses resolved with
\* the envelope the server sent, its data unchanged, and neither invoked an
\* error interceptor nor emitted a notice.
C6_SuccessResolvesWithEnvelope ==
  \A c \in DOMAIN call :
    LET st == call[c] IN
    ( /\ VerbCall(st) /\ Settled(st) /\ added = 0
      /\ Answered(st) /\ ~st.aborted
      /\ st.response.status \in 200..299
      /\ st.response.body.wellFormed )
    => /\ st.pc = "resolved"
       /\ st.value = st.response.body.json
       /\ st.value.data = st.response.body.json.data
       /\ st.errCalls = <<>>
       /\ st.notices = <<>>
       /\ st.settles = 1

\* A call resolved with the envelope of a 201 response.
C6_Witness ==
  \E c \in DOMAIN call :
    /\ VerbCall(call[c])
    /\ call[c].pc = "resolved"
    /\ added = 0
    /\ call[c].response.status = 201
    /\ call[c].value.data = "d2"

\* The timeout the claim names: the override when one is given.
ClaimedTimeout(st) ==
  IF st.config.timeout # NoTimeout THEN st.config.timeout ELSE clientTimeout

C9_OneNoticePerFailure ==
  \A c \in DOMAIN call :
    LET st == call[c] IN
    (VerbCall(st) /\ st.pc = "rejected" /\ added = 0) =>
      /\ Len(st.notices) = 1
      /\ st.notices[1] =
           (IF st.response.status = HTTP_UNAUTHORIZED THEN UNAUTHORIZED
            ELSE IF st.response.status = HTTP_FORBIDDEN THEN FORBIDDEN
            ELSE st.rejection.message)

\* C10 (as claimed): the fetch of a verb call carries the method of the
\* binding that was called.
C10_MethodOfBinding ==
  \A c \in DOMAIN call :
    (VerbCall(call[c]) /\ call[c].fetches > 0) =>
      call[c].sent.method = call[c].verb

\* ============================================================ query strings
\* buildURL (http.ts), urlUtils.buildQuery / parseQuery (utils/index.ts) and
\* userApi.getUsers (api.ts).  Text is a sequence of one-character strings, so
\* that escaping and parsing are computed character by character.
MaxParams == 2     \* entries of a params object

\* JavaScript values of a params entry.
JsNull      == [type |-> "null",      n |-> 0, b |-> FALSE, s |-> <<>>]
JsUndefined == [type |-> "undefined", n |-> 0, b |-> FALSE, s |-> <<>>]
JsNumber(n) == [type |-> "number",    n |-> n, b |-> FALSE, s |-> <<>>]
JsBoolean(b) == [type |-> "boolean",  n |-> 0, b |-> b,     s |-> <<>>]
JsString(s) == [type |-> "string",    n |-> 0, b |-> FALSE, s |-> s]

DigitChar(d) ==
  CASE d = 0 -> "0" [] d = 1 -> "1" [] d = 2 -> "2" [] d = 3 -> "3" [] d = 4 -> "4"
    [] d = 5 -> "5" [] d = 6 -> "6" [] d = 7 -> "7" [] d = 8 -> "8" [] d = 9 -> "9"

\* Number.prototype.toString of a natural number
RECURSIVE NumberToString(_)
NumberToString(n) ==
  IF n < 10 THEN <<DigitChar(n)>>
  ELSE NumberToString(n \div 10) \o <<DigitChar(n % 10)>>

\* String(value)
StringOf(value) ==
  CASE value.type = "null"      -> <<"n", "u", "l", "l">>
    [] value.type = "undefined" -> <<"u", "n", "d", "e", "f", "i", "n", "e", "d">>
    [] value.type = "number"    -> NumberToString(value.n)
    [] value.type = "boolean"   -> IF value.b THEN <<"t", "r", "u", "e">>
                                   ELSE <<"f", "a", "l", "s", "e">>
    [] value.type = "string"    -> value.s

\* value !== null && value !== undefined && value !== ""
Kept(value) ==
  /\ value.type # "null"
  /\ value.type # "undefined"
  /\ ~(value.type = "string" /\ value.s = <<>>)

\* JavaScript truthiness of a value
TruthyValue(value) ==
  CASE value.type = "null"      -> FALSE
    [] value.type = "undefined" -> FALSE
    [] value.type = "number"    -> value.n # 0
    [] value.type = "boolean"   -> value.b
    [] value.type = "string"    -> value.s # <<>>

\* A variant of the serializer's escaping that writes every character as it is.
EncodeCharPlain(ch) == <<ch>>

\* The application/x-www-form-urlencoded serializer, on one character: a space
\* becomes "+", a character outside the unreserved set its percent-encoding.
EncodeChar(ch) ==
  CASE ch = " " -> <<"+">>
    [] ch = "&" -> <<"%", "2", "6">>
    [] ch = "=" -> <<"%", "3", "D">>
    [] ch = "+" -> <<"%", "2", "B">>
    [] ch = "%" -> <<"%", "2", "5">>
    [] ch = "/" -> <<"%", "2", "F">>
    [] ch = "?" -> <<"%", "3", "F">>
    [] OTHER    -> <<ch>>

RECURSIVE Encode(_)
Encode(text) ==
  IF text = <<>> THEN <<>> ELSE EncodeChar(Head(text)) \o Encode(Tail(text))

\* URLSearchParams.prototype.toString: name=value joined by "&".
RECURSIVE Serialize(_)
Serialize(list) ==
  IF list = <<>> THEN <<>>
  ELSE Encode(list[1].name) \o <<"=">> \o Encode(list[1].value)
         \o (IF Len(list) > 1 THEN <<"&">> \o Serialize(Tail(list)) ELSE <<>>)

\* The percent-decoding of the two hexadecimal digits after a "%", for the
\* bytes the serializer above writes; "" when the two are no such pair.
DecodeHex(h1, h2) ==
  CASE h1 = "2" /\ h2 = "6" -> "&"
    [] h1 = "3" /\ h2 \in {"D", "d"} -> "="
    [] h1 = "2" /\ h2 \in {"B", "b"} -> "+"
    [] h1 = "2" /\ h2 = "5" -> "%"
    [] h1 = "2" /\ h2 \in {"F", "f"} -> "/"
    [] h1 = "3" /\ h2 \in {"F", "f"} -> "?"
    [] h1 = "2" /\ h2 = "0" -> " "
    [] OTHER -> ""

\* The urlencoded parser on a name or a value: "+" is a space, then the
\* percent-decoding, left to right, each escape decoded once.
RECURSIVE Decode(_)
Decode(text) ==
  IF text = <<>> THEN <<>>
  ELSE IF text[1] = "+" THEN <<" ">> \o Decode(Tail(text))
  ELSE IF text[1] = "%" /\ Len(text) >= 3 /\ DecodeHex(text[2], text[3]) # ""
  THEN <<DecodeHex(text[2], text[3])>> \o Decode(SubSeq(text, 4, Len(text)))
  ELSE <<text[1]>> \o Decode(Tail(text))

\* The pieces of a text between the occurrences of a separator.
RECURSIVE Split(_, _)
Split(text, sep) ==
  IF \A k \in 1..Len(text) : text[k] # sep THEN <<text>>
  ELSE LET k == CHOOSE j \in 1..Len(text) :
                  text[j] = sep /\ \A h \in 1..(j - 1) : text[h] # sep
       IN <<SubSeq(text, 1, k - 1)>> \o Split(SubSeq(text, k + 1, Len(text)), sep)

\* One piece of a query string as a name and a value: split at the first "=".
ParsePiece(piece) ==
  IF \A k \in 1..Len(piece) : piece[k] # "="
  THEN [name |-> Decode(piece), value |-> <<>>]
  ELSE LET k == CHOOSE j \in 1..Len(piece) :
                  piece[j] = "=" /\ \A h \in 1..(j - 1) : piece[h] # "="
       IN [name  |-> Decode(SubSeq(piece, 1, k - 1)),
           value |-> Decode(SubSeq(piece, k + 1, Len(piece)))]

RECURSIVE ParsePieces(_)
ParsePieces(pieces) ==
  IF pieces = <<>> THEN <<>>
  ELSE IF pieces[1] = <<>> THEN ParsePieces(Tail(pieces))
  ELSE <<ParsePiece(pieces[1])>> \o ParsePieces(Tail(pieces))

\* new URLSearchParams(search): a leading "?" is dropped, the pieces between
\* "&" that are not empty are the entries, in order.
URLSearchParams(search) ==
  LET text == IF search # <<>> /\ search[1] = "?" THEN Tail(search) ELSE search
  IN ParsePieces(Split(text, "&"))

\* Object.entries(params).forEach: the entries that pass the test are appended
\* with the string form of their value.
RECURSIVE AppendKept(_)
AppendKept(entries) ==
  IF entries = <<>> THEN <<>>
  ELSE (IF Kept(entries[1].value)
        THEN <<[name |-> entries[1].key, value |-> StringOf(entries[1].value)]>>
        ELSE <<>>) \o AppendKept(Tail(entries))

\* urlUtils.buildQuery
buildQuery(entries) == Serialize(AppendKept(entries))

\* urlUtils.parseQuery: result[key] = value for each entry, a later entry of
\* the same name replacing an earlier one.
parseQuery(search) ==
  LET list == URLSearchParams(search)
      names == {list[k].name : k \in 1..Len(list)}
  IN [nm \in names |->
        list[CHOOSE k \in 1..Len(list) :
               list[k].name = nm /\ \A h \in (k + 1)..Len(list) : list[h].name # nm].value]

API_BASE_URL == <<"/", "a", "p", "i">>

\* url.startsWith("http")
StartsWithHttp(url) ==
  Len(url) >= 4 /\ SubSeq(url, 1, 4) = <<"h", "t", "t", "p">>

\* HttpClient.buildURL(url, params); given says whether params was passed.
buildURL(url, given, entries) ==
  LET fullURL == IF StartsWithHttp(url) THEN url ELSE API_BASE_URL \o url
      queryString == buildQuery(entries)
  IN IF given /\ queryString # <<>> THEN fullURL \o <<"?">> \o queryString
     ELSE fullURL

USERS == <<"/", "u", "s", "e", "r", "s">>

\* The names of the three parameters of getUsers.
CURRENT   == <<"c", "u", "r", "r", "e", "n", "t">>
PAGE_SIZE == <<"p", "a", "g", "e", "S", "i", "z", "e">>
SEARCH    == <<"s", "e", "a", "r", "c", "h">>

\* A variant that sets every field that is not null, undefined or "".
getUsersNonEmpty(params) ==
  LET list == (IF Kept(params.current)
               THEN <<[name |-> CURRENT, value |-> StringOf(params.current)]>>
               ELSE <<>>)
           \o (IF Kept(params.pageSize)
               THEN <<[name |-> PAGE_SIZE, value |-> StringOf(params.pageSize)]>>
               ELSE <<>>)
           \o (IF Kept(params.search)
               THEN <<[name |-> SEARCH, value |-> StringOf(params.search)]>>
               ELSE <<>>)
      queryString == Serialize(list)
  IN IF queryString # <<>> THEN USERS \o <<"?">> \o queryString ELSE USERS

\* userApi.getUsers(params) up to the call of http.get: the url it passes.
\* A field is set when it is truthy; params is the record of the three
\* fields, each JsUndefined when params or the field is absent.
getUsers(params) ==
  LET list == (IF TruthyValue(params.current)
               THEN <<[name |-> CURRENT,
                       value |-> StringOf(params.current)]>> ELSE <<>>)
           \o (IF TruthyValue(params.pageSize)
               THEN <<[name |-> PAGE_SIZE,
                       value |-> StringOf(params.pageSize)]>> ELSE <<>>)
           \o (IF TruthyValue(params.search)
               THEN <<[name |-> SEARCH,
                       value |-> StringOf(params.search)]>> ELSE <<>>)
      queryString == Serialize(list)
  IN IF queryString # <<>> THEN USERS \o <<"?">> \o queryString ELSE USERS

\* The part of a url from its first "?" on (location.search), or the empty text.
SearchOf(url) ==
  IF \A k \in 1..Len(url) : url[k] # "?" THEN <<>>
  ELSE LET k == CHOOSE j \in 1..Len(url) :
                  url[j] = "?" /\ \A h \in 1..(j - 1) : url[h] # "?"
       IN SubSeq(url, k, Len(url))

\* ---------------------------------------------------------------- inputs
Keys == { <<"q">>, <<"a", "&", "b">>, <<"k", "=">> }

Values ==
  { JsNull, JsUndefined, JsString(<<>>), JsNumber(0), JsBoolean(FALSE),
    JsString(<<"x">>), JsString(<<"a", " ", "b">>), JsString(<<"&", "=">>),
    JsString(<<"1", "+", "1">>), JsString(<<"%", "2", "6">>) }

\* The entries of a params object: the keys of an object are distinct.
Mappings ==
  UNION { { m \in [1..n -> [key : Keys, value : Values]] :
              \A i, j \in 1..n : i # j => m[i].key # m[j].key } : n \in 0..MaxParams }

NoUserParams == [current |-> JsUndefined, pageSize |-> JsUndefined, search |-> JsUndefined]

UserParams ==
  [current  : {JsUndefined, JsNumber(0), JsNumber(2)},
   pageSize : {JsUndefined, JsNumber(0), JsNumber(20)},
   search   : {JsUndefined, JsString(<<>>), JsString(<<"b", "o", "b">>),
               JsString(<<"a", " ", "&">>)}]

IdleQuery ==
  [op      |-> "params",       \* "params": buildQuery / buildURL; "getUsers"
   pc      |-> "start",
   given   |-> FALSE,          \* buildURL was passed a params object
   entries |-> <<>>,           \* Object.entries of it
   users   |-> NoUserParams,   \* the argument of getUsers
   method  |-> Undefined,      \* the verb getUsers calls the client with
   path    |-> <<>>,           \* the url getUsers passes to http.get
   qs      |-> <<>>,           \* the query string built, or the search parsed
   url     |-> <<>>,           \* the url built
   parsed  |-> <<>>]           \* the record parseQuery returned

\* The client with nothing registered beyond the defaults and no call made.
ClientParked ==
  /\ token = NoToken
  /\ pathname = "/users"
  /\ clientTimeout = MaxTimeout
  /\ requestInterceptors = <<DefaultRequest>>
  /\ responseInterceptors = <<DefaultResponse>>
  /\ errorInterceptors = <<DefaultError>>
  /\ added = 0
  /\ call = [c \in {1} |-> IdleCall]

QueryInit ==
  /\ ClientParked
  /\ hook = NoHook
  /\ debounced = NoDebounced
  /\ atStart = NoLengths
  /\ throttled = NoThrottled
  /\ store = NoStore
  /\ query \in {[IdleQuery EXCEPT !.given = TRUE, !.entries = m] : m \in Mappings}
               \cup {IdleQuery}
               \cup {[IdleQuery EXCEPT !.op = "getUsers", !.users = u] :
                       u \in UserParams}

\* urlUtils.buildQuery(params)
BuildQuery ==
  /\ query.op = "params" /\ query.pc = "start" /\ query.given
  /\ query' = [query EXCEPT !.pc = "built", !.qs = buildQuery(query.entries)]
  /\ UNCHANGED besideQuery

\* buildURL("/users", params), as request() calls it
BuildURL ==
  /\ query.op = "params" /\ query.pc = "start"
  /\ query' = [query EXCEPT !.pc = "url",
                            !.url = buildURL(USERS, query.given, query.entries)]
  /\ UNCHANGED besideQuery

\* userApi.getUsers(params): the url is built, http.get is called with it and
\* request() builds the full URL without params.
GetUsers ==
  /\ query.op = "getUsers" /\ query.pc = "start"
  /\ query' = [query EXCEPT
                 !.pc = "url",
                 !.method = VerbDescriptor("GET", Undefined, NoOverrides).method,
                 !.path = getUsers(query.users),
                 !.url = buildURL(getUsers(query.users), FALSE, <<>>)]
  /\ UNCHANGED besideQuery

\* urlUtils.parseQuery on the query string built, or on the search of the url.
ParseQuery ==
  /\ query.pc \in {"built", "url"}
  /\ LET search == IF query.pc = "built" THEN query.qs ELSE SearchOf(query.url)
     IN query' = [query EXCEPT !.pc = "parsed", !.qs = search,
                               !.parsed = parseQuery(search)]
  /\ UNCHANGED besideQuery

QueryNext ==
  \/ BuildQuery
  \/ BuildURL
  \/ GetUsers
  \/ ParseQuery

SpecQuery == QueryInit /\ [][QueryNext]_<<vars, others>>

\* ------------------------------------------------------------------ claims
\* The entries of a params object the test keeps, with the string form of
\* their values, in the order of the object.
KeptEntries(entries) ==
  LET kept == SelectSeq(entries, LAMBDA e : Kept(e.value))
  IN [k \in 1..Len(kept) |->
        [name |-> kept[k].key, value |-> StringOf(kept[k].value)]]

C13_UploadAttachesToken ==
  /\ [][\A c \in DOMAIN call :
          ( /\ Free(call[c]) /\ call'[c] # call[c]
            /\ call'[c].op = "upload"
            /\ token # NoToken )
          => /\ call'[c].pc = "xhr"
             /\ call'[c].opened
             /\ call'[c].sent.method = "POST"
             /\ call'[c].sent.headers.Authorization = "Bearer " \o token
             /\ call'[c].sent.body = FormData]_vars
  /\ [](\A c \in DOMAIN call :
          (call[c].op = "upload" /\ Settled(call[c])) =>
            ( call[c].pc = "resolved"
              <=> /\ Answered(call[c])
                  /\ call[c].response.status \in 200..299
                  /\ call[c].response.body.wellFormed ))

\* C14 (as claimed): a download that settled, resolved or rejected, has
\* revoked every object URL it created.
C14_ObjectUrlRevoked ==
  \A c \in DOMAIN call :
    (call[c].op = "download" /\ Settled(call[c])) =>
      call[c].revoked = call[c].created

\* ========================================================= concurrent calls
\* Two verb calls in progress at once on the client as constructed, with the
\* application writing the token store between their steps.
Slots == {1, 2}

ConcurrentCalls ==
  { [verb |-> "GET",  data |-> Undefined, overrides |-> NoOverrides],
    [verb |-> "POST", data |-> PlainData, overrides |-> NoOverrides] }

ConcurrentInit ==
  /\ token \in {NoToken} \cup Tokens
  /\ pathname = "/users"
  /\ clientTimeout = MaxTimeout
  /\ requestInterceptors = <<DefaultRequest>>
  /\ responseInterceptors = <<DefaultResponse>>
  /\ errorInterceptors = <<DefaultError>>
  /\ added = 0
  /\ call = [c \in Slots |-> IdleCall]
  /\ query = NoQuery
  /\ hook = NoHook
  /\ debounced = NoDebounced
  /\ atStart = NoLengths
  /\ throttled = NoThrottled
  /\ store = NoStore

ConcurrentNext ==
  \/ UNCHANGED others /\ \E t \in Tokens : SetToken(t)
  \/ UNCHANGED others /\ RemoveToken
  \/ UNCHANGED others /\ \E c \in DOMAIN call : \E v \in ConcurrentCalls :
                         StartVerb(c, v.verb, v.data, v.overrides)
  \/ UNCHANGED others /\ \E c \in DOMAIN call : RequestInterceptorReturns(c)
  \/ UNCHANGED others /\ \E c \in DOMAIN call : \E r \in Responses : Respond(c, r)
  \/ UNCHANGED others /\ \E c \in DOMAIN call : NetworkFails(c)
  \/ UNCHANGED others /\ \E c \in DOMAIN call : DefaultResponseSettles(c)

SpecConcurrent == ConcurrentInit /\ [][ConcurrentNext]_vars

\* Authorization as the default request interceptor writes it for a store
\* holding tok.
BearerOf(tok) == IF tok = NoToken THEN Undefined ELSE "Bearer " \o tok

\* C15: with only the default interceptors, under any interleaving of two
\* verb calls and changes of the token store: the default request interceptor
\* of a call, which runs as the call starts, writes Authorization: Bearer t
\* when the store holds t at that moment and writes no Authorization when the
\* store is empty; what it wrote is what the fetch of the call carries, and no
\* later step (a change of the store, a step of the other call) alters it.
C15_TokenReadOncePerCall ==
  /\ [](\A c \in DOMAIN call :
          VerbCall(call[c]) =>
            /\ Len(call[c].reqCalls) = 1
            /\ call[c].reqCalls[1].fn = DefaultRequest
            /\ call[c].fetches > 0 =>
                 call[c].sent.headers.Authorization
                   = call[c].pending.headers.Authorization)
  /\ [][\A c \in DOMAIN call :
          /\ ( Free(call[c]) /\ call'[c] # call[c] /\ VerbCall(call'[c]) )
             => /\ call'[c].pending.headers.Authorization = BearerOf(token)
                /\ token' = token
          /\ ( VerbCall(call[c]) /\ ~Free(call[c]) )
             => /\ call'[c].pending = call[c].pending
                /\ call[c].fetches > 0 => call'[c].sent = call[c].sent]_vars

\* Two calls are at the transport, the first sent with the token the store
\* held when it started, the second without one, and the store holds another
\* token now.
C15_Witness ==
  /\ call[1].pc = "fetch" /\ call[2].pc = "fetch"
  /\ call[1].sent.headers.Authorization = "Bearer t1"
  /\ call[2].sent.headers.Authorization = Undefined
  /\ token = "t2"

\* The three parameters of getUsers as entries, in the order current,
\* pageSize, search.
UserEntries(users) ==
  << [key |-> CURRENT,   value |-> users.current],
     [key |-> PAGE_SIZE, value |-> users.pageSize],
     [key |-> SEARCH,    value |-> users.search] >>

\* Those of the entries whose value is truthy, with its string form.
TruthyEntries(entries) ==
  LET kept == SelectSeq(entries, LAMBDA e : TruthyValue(e.value))
  IN [k \in 1..Len(kept) |->
        [name |-> kept[k].key, value |-> StringOf(kept[k].value)]]

\* C16 (as claimed): getUsers calls the client with GET and the path "/users"
\* followed by "?" and a query string that holds, in the order current,
\* pageSize, search, those of the three parameters that are present and not
\* empty (not null, not undefined, not ""), and with "/users" alone when none is.
C16_GetUsersNonEmpty ==
  LET kept == KeptEntries(UserEntries(query.users)) IN
  (query.op = "getUsers" /\ query.pc # "start") =>
    /\ query.method = "GET"
    /\ SubSeq(query.path, 1, Len(USERS)) = USERS
    /\ kept = <<>> <=> query.path = USERS
    /\ URLSearchParams(SearchOf(query.path)) = kept

\* C16 (amended): the same with the parameters that are truthy: a number
\* other than 0, a search that is not the empty string.
C16_GetUsersTruthy ==
  LET kept == TruthyEntries(UserEntries(query.users)) IN
  (query.op = "getUsers" /\ query.pc # "start") =>
    /\ query.method = "GET"
    /\ SubSeq(query.path, 1, Len(USERS)) = USERS
    /\ kept = <<>> <=> query.path = USERS
    /\ kept = <<>> <=> \A k \in 1..Len(query.path) : query.path[k] # "?"
    /\ kept # <<>> => query.path[Len(USERS) + 1] = "?"
    /\ URLSearchParams(SearchOf(query.path)) = kept
    /\ query.url = API_BASE_URL \o query.path

\* getUsers({current: 2, pageSize: 20, search: ""}) called the client with
\* "/users?current=2&pageSize=20".
C16_Witness ==
  /\ query.op = "getUsers" /\ query.pc = "url"
  /\ query.users = [current |-> JsNumber(2), pageSize |-> JsNumber(20),
                    search |-> JsString(<<>>)]
  /\ query.path = USERS \o <<"?">> \o CURRENT \o <<"=", "2", "&">>
                    \o PAGE_SIZE \o <<"=", "2", "0">>

\* ================================================== interceptors added late
\* One verb call on a client to which the application adds interceptors at any
\* moment, before the call or while it is suspended.  atStart records the
\* lengths of the three registries when the call started.
Lengths ==
  [request  |-> Len(requestInterceptors),
   response |-> Len(responseInterceptors),
   error    |-> Len(errorInterceptors)]

LateInit ==
  /\ token \in {NoToken} \cup Tokens
  /\ pathname = "/users"
  /\ clientTimeout = MaxTimeout
  /\ requestInterceptors = <<DefaultRequest>>
  /\ responseInterceptors = <<DefaultResponse>>
  /\ errorInterceptors = <<DefaultError>>
  /\ added = 0
  /\ call = [c \in {1} |-> IdleCall]
  /\ query = NoQuery
  /\ hook = NoHook
  /\ debounced = NoDebounced
  /\ atStart = NoLengths
  /\ throttled = NoThrottled
  /\ store = NoStore

\* What a step of the client leaves alone that is not a start of the call.
besideCall == <<query, hook, debounced, atStart, throttled, store>>

LateNext ==
  \/ UNCHANGED besideCall /\ \E fn \in Fns : AddRequestInterceptor(fn)
  \/ UNCHANGED besideCall /\ \E fn \in Fns : AddResponseInterceptor(fn)
  \/ UNCHANGED besideCall /\ \E fn \in Fns : AddErrorInterceptor(fn)
  \/ /\ call[1].pc = "idle"
     /\ StartVerb(1, "GET", Undefined, NoOverrides)
     /\ atStart' = Lengths
     /\ UNCHANGED <<query, hook, debounced, throttled, store>>
  \/ UNCHANGED besideCall /\ RequestInterceptorReturns(1)
  \/ UNCHANGED besideCall /\ \E r \in Responses : Respond(1, r)
  \/ UNCHANGED besideCall /\ NetworkFails(1)
  \/ UNCHANGED besideCall /\ DefaultResponseSettles(1)
  \/ UNCHANGED besideCall /\ ResponseInterceptorReturns(1)
  \/ UNCHANGED besideCall /\ ErrorInterceptorSettles(1, FALSE, NoError)

SpecLate == LateInit /\ [][LateNext]_<<vars, atStart>>

\* C17 (as claimed): the interceptors applied to a call are those registered
\* when it started: no chain of the call invokes more interceptors than its
\* registry held at that moment.
C17_AppliedAreThoseAtStart ==
  VerbCall(call[1]) =>
    /\ Len(call[1].reqCalls) <= atStart.request
    /\ Len(call[1].respCalls) <= atStart.response
    /\ Len(call[1].errCalls) <= atStart.error

\* C17 (amended): a step of the call leaves the registries as they are; each
\* chain of a call applies the entries its registry holds when its loop reaches
\* them: a call goes to the transport, resolves or rejects having invoked as
\* many request, response or error interceptors as the registry holds at that
\* step, those added since the call started included; an interceptor added to
\* a registry after the call's loop over it ended is not applied to the call.
C17_AppliedAreThoseAtLoopEnd ==
  /\ [](VerbCall(call[1]) =>
          /\ Len(call[1].reqCalls) >= 1
          /\ Len(call[1].respCalls) <= Len(responseInterceptors)
          /\ Len(call[1].errCalls) <= Len(errorInterceptors)
          /\ call[1].fetches > 0 =>
               /\ Len(call[1].reqCalls) = call[1].reqCount
               /\ call[1].reqCount >= atStart.request
          /\ call[1].pc = "resolved" => Len(call[1].respCalls) >= atStart.response
          /\ call[1].pc = "rejected" =>
               /\ Len(call[1].errCalls) = call[1].errCount
               /\ call[1].errCount >= atStart.error)
  /\ [][/\ call'[1] # call[1] => UNCHANGED Registries
        /\ (call[1].pc = "reqAwait" /\ call'[1].pc = "fetch")
             => Len(call'[1].reqCalls) = Len(requestInterceptors)
        /\ (call[1].pc = "respAwait" /\ call'[1].pc = "resolved")
             => Len(call'[1].respCalls) = Len(responseInterceptors)
        /\ (call[1].pc # "rejected" /\ call'[1].pc = "rejected")
             => Len(call'[1].errCalls) = Len(errorInterceptors)
        /\ call[1].fetches > 0 => call'[1].reqCalls = call[1].reqCalls
        /\ Settled(call[1]) => call'[1] = call[1]]_<<vars, atStart>>

\* A response interceptor was added while the call was at the transport or in
\* an earlier interceptor, and the call resolved after invoking it.
C17_Witness ==
  /\ call[1].pc = "resolved"
  /\ atStart.response = 1
  /\ Len(call[1].respCalls) = 2
  /\ call[1].respCalls[2].fn = "f1"

\* ==================================================================== useApi
\* One mounted useApi(apiFunction, {onSuccess, onError}) (hooks/useApi): its
\* state {data, loading, error} and the invocations of execute in progress.
\* apiFunction is a call of the pipeline, or another function that throws an
\* Error.
MaxExecutes == 2   \* invocations of execute

Null == "null"
REQUEST_FAILED == "request failed"
NETWORK_ERROR  == "network error"

\* error instanceof Error: the ApiError of the pipeline is an object literal,
\* the values thrown elsewhere are Error objects, which have a name.
InstanceOfError(error) == "name" \in DOMAIN error

\* What apiFunction settles with.
Resolution(envelope) == [resolved |-> TRUE, value |-> envelope, error |-> NoApiError]
Rejection(error)     == [resolved |-> FALSE, value |-> NoEnvelope, error |-> error]

Outcomes ==
  { Resolution(r.body.json) : r \in {x \in Responses : Ok(x) /\ x.body.wellFormed} }
    \cup { Resolution(Envelope(FALSE, "invalid email", Undefined)),
           Resolution(Envelope(FALSE, Undefined, Undefined)) }
    \cup { Rejection(MakeApiError(e)) :
             e \in {NetworkFailure, TimeoutFailure, HttpError("email exists")} }
    \cup { Rejection(HttpError("boom")) }

\* execute after its await: the state it sets and the callback it calls.
AfterSettle(outcome) ==
  IF outcome.resolved /\ outcome.value.success
  THEN [data |-> outcome.value.data, loading |-> FALSE, error |-> Null,
        onSuccess |-> <<outcome.value.data>>, onError |-> <<>>]
  ELSE LET errorMsg == IF outcome.resolved
                       THEN IF Truthy(outcome.value.message)
                            THEN outcome.value.message ELSE REQUEST_FAILED
                       ELSE IF InstanceOfError(outcome.error)
                            THEN outcome.error.message ELSE NETWORK_ERROR
       IN [data |-> Null, loading |-> FALSE, error |-> errorMsg,
           onSuccess |-> <<>>, onError |-> <<errorMsg>>]

IdleHook ==
  [op        |-> "useApi",
   data      |-> Null,
   loading   |-> FALSE,
   error     |-> Null,
   runs      |-> <<>>,     \* invocations of execute: [awaiting, outcome]
   onSuccess |-> <<>>,     \* arguments of the calls of onSuccess
   onError   |-> <<>>]     \* arguments of the calls of onError

NoOutcome == Rejection(NoApiError)

HookInit ==
  /\ ClientParked
  /\ query = NoQuery
  /\ debounced = NoDebounced
  /\ atStart = NoLengths
  /\ throttled = NoThrottled
  /\ store = NoStore
  /\ hook = IdleHook

besideHook == <<vars, query, debounced, atStart, throttled, store>>

\* execute() up to its await: loading is set, error cleared, data kept.
Execute ==
  /\ Len(hook.runs) < MaxExecutes
  /\ hook' = [hook EXCEPT !.loading = TRUE, !.error = Null,
                          !.runs = Append(@, [awaiting |-> TRUE, outcome |-> NoOutcome])]
  /\ UNCHANGED besideHook

\* The apiFunction of invocation k settles and execute runs to its end.
Settle(k, outcome) ==
  /\ hook.runs[k].awaiting
  /\ LET after == AfterSettle(outcome)
     IN hook' = [hook EXCEPT
                   !.data = after.data,
                   !.loading = after.loading,
                   !.error = after.error,
                   !.runs[k] = [awaiting |-> FALSE, outcome |-> outcome],
                   !.onSuccess = @ \o after.onSuccess,
                   !.onError = @ \o after.onError]
  /\ UNCHANGED besideHook

HookNext ==
  \/ Execute
  \/ \E k \in DOMAIN hook.runs : \E o \in Outcomes : Settle(k, o)

SpecHook == HookInit /\ [][HookNext]_<<vars, others>>

\* C18 (as claimed): while an invocation of execute is awaiting, loading is
\* true; once every invocation has settled, data and error are those of the
\* invocation started last.
C18_LastStartedWins ==
  LET n == Len(hook.runs) IN
  /\ (\E k \in 1..n : hook.runs[k].awaiting) => hook.loading
  /\ (n >= 1 /\ \A k \in 1..n : ~hook.runs[k].awaiting) =>
       /\ ~hook.loading
       /\ hook.data = AfterSettle(hook.runs[n].outcome).data
       /\ hook.error = AfterSettle(hook.runs[n].outcome).error

\* C19 (as claimed): after one execute whose apiFunction rejected with the
\* ApiError {code, message: m, details} of the pipeline, loading is false,
\* data null, error m and onError was called with m; after one that resolved
\* with success = false, error is the message of the envelope or the generic
\* request-failed text; after one that resolved with success = true, data is
\* the data of the envelope and error null.
C19_ErrorIsPipelineMessage ==
  (Len(hook.runs) = 1 /\ ~hook.runs[1].awaiting) =>
    LET o == hook.runs[1].outcome IN
    /\ ~hook.loading
    /\ (~o.resolved /\ ~InstanceOfError(o.error)) =>
         /\ hook.data = Null
         /\ hook.error = o.error.message
         /\ hook.onError = <<o.error.message>>
    /\ (o.resolved /\ ~o.value.success) =>
         /\ hook.data = Null
         /\ hook.error = (IF o.value.message # "" THEN o.value.message
                          ELSE REQUEST_FAILED)
    /\ (o.resolved /\ o.value.success) =>
         /\ hook.data = o.value.data
         /\ hook.error = Null

\* ================================================================== debounce
\* One function returned by debounce(func, wait) (utils/index.ts), the timers
\* of the event loop and a clock.  setTimeout promises the least delay: a
\* timer runs when it is due or later, once the event loop gets to it, and the
\* application may call the function again in between.
MaxCalls == 3      \* calls of the debounced function
MaxWait  == 2      \* wait is 1..MaxWait ticks
MaxClock == 5      \* the clock stops here

Args == {"a", "b"}

IdleDebounced ==
  [op      |-> "debounce",
   wait    |-> 1,
   now     |-> 0,
   timeout |-> 0,        \* the closure's variable: id of the timer set last, 0 at first
   timers  |-> {},       \* the pending timers: [id, due, args]
   calls   |-> <<>>,     \* the calls made: [at, args]
   invoked |-> <<>>]     \* the invocations of func: [at, args, id of the timer]

\* A variant that sets the new timer without clearing the one before.
DebouncedCallKeepingTimer(d, args) ==
  LET id == Len(d.calls) + 1
  IN [d EXCEPT !.timers = @ \cup {[id |-> id, due |-> d.now + d.wait, args |-> args]},
               !.timeout = id,
               !.calls = Append(@, [at |-> d.now, args |-> args])]

\* The returned function: clearTimeout(timeout); timeout = setTimeout(..., wait).
DebouncedCall(d, args) ==
  LET id == Len(d.calls) + 1
  IN [d EXCEPT !.timers = {t \in @ : t.id # d.timeout}
                            \cup {[id |-> id, due |-> d.now + d.wait, args |-> args]},
               !.timeout = id,
               !.calls = Append(@, [at |-> d.now, args |-> args])]

\* The callback of a timer: () => func(...args).
TimerCallback(d, t) ==
  [d EXCEPT !.timers = @ \ {t},
            !.invoked = Append(@, [at |-> d.now, args |-> t.args, id |-> t.id])]

DebounceInit ==
  /\ ClientParked
  /\ query = NoQuery
  /\ hook = NoHook
  /\ atStart = NoLengths
  /\ throttled = NoThrottled
  /\ store = NoStore
  /\ debounced \in {[IdleDebounced EXCEPT !.wait = w] : w \in 1..MaxWait}

besideDebounced == <<vars, query, hook, atStart, throttled, store>>

\* The application calls the debounced function.
Call(args) ==
  /\ Len(debounced.calls) < MaxCalls
  /\ debounced.now + debounced.wait <= MaxClock
  /\ debounced' = DebouncedCall(debounced, args)
  /\ UNCHANGED besideDebounced

\* A pending timer is due and runs.
TimerFires ==
  /\ \E t \in debounced.timers :
       /\ t.due <= debounced.now
       /\ debounced' = TimerCallback(debounced, t)
  /\ UNCHANGED besideDebounced

\* Time passes, also while a timer that is due waits for the event loop.
ClockTick ==
  /\ debounced.now < MaxClock
  /\ debounced' = [debounced EXCEPT !.now = @ + 1]
  /\ UNCHANGED besideDebounced

DebounceNext ==
  \/ \E args \in Args : Call(args)
  \/ TimerFires
  \/ ClockTick

\* The event loop gets to a timer that is due, and time goes on.
SpecDebounce ==
  /\ DebounceInit
  /\ [][DebounceNext]_<<vars, others>>
  /\ WF_<<vars, others>>(TimerFires)
  /\ WF_<<vars, others>>(ClockTick)

\* The invocations of func made for call k, and the time from call k to the
\* call after it.
InvocationsFor(k) ==
  Cardinality({j \in 1..Len(debounced.invoked) : debounced.invoked[j].id = k})
GapAfter(k) == debounced.calls[k + 1].at - debounced.calls[k].at

\* C20 (as claimed): a call followed by another less than wait later is never
\* invoked; a call followed by none less than wait later, the last of its
\* burst, is invoked once, wait after it and with its arguments; at most one
\* timer is pending.
C20_OncePerBurst ==
  LET d == debounced
      n == Len(d.calls)
  IN /\ Cardinality(d.timers) <= 1
     /\ \A k \in 1..n :
          /\ (k < n /\ GapAfter(k) < d.wait) => InvocationsFor(k) = 0
          /\ (k < n /\ GapAfter(k) >= d.wait) => InvocationsFor(k) = 1
          /\ k = n => InvocationsFor(k) <= 1
     /\ \A j \in 1..Len(d.invoked) :
          /\ d.invoked[j].at = d.calls[d.invoked[j].id].at + d.wait
          /\ d.invoked[j].args = d.calls[d.invoked[j].id].args

\* C20 (amended): func is invoked by a timer alone, never within a call; a
\* call sets one timer and clears the one of the call before it if that has
\* not run, so that at most one timer is pending, that of the last call; a
\* call followed by another less than wait later is never invoked, any other
\* call at most once, before the call after it; an invocation comes no sooner
\* than wait after its call and with its arguments; and in the end the last
\* call is invoked.
C20_OncePerRun ==
  /\ [](LET d == debounced
            n == Len(d.calls)
        IN /\ Cardinality(d.timers) <= 1
           /\ \A k \in 1..n :
                /\ InvocationsFor(k) <= 1
                /\ (k < n /\ GapAfter(k) < d.wait) => InvocationsFor(k) = 0
                /\ k = n =>
                     /\ InvocationsFor(k) = 0
                          <=> d.timers = {[id |-> k, due |-> d.calls[k].at + d.wait,
                                           args |-> d.calls[k].args]}
                     /\ InvocationsFor(k) = 1 <=> d.timers = {}
           /\ \A j \in 1..Len(d.invoked) :
                LET k == d.invoked[j].id IN
                /\ d.invoked[j].at >= d.calls[k].at + d.wait
                /\ d.invoked[j].args = d.calls[k].args
                /\ k < n => d.invoked[j].at <= d.calls[k + 1].at
                /\ \A h \in 1..(j - 1) : d.invoked[h].id < k)
  /\ [][debounced'.calls # debounced.calls
          => debounced'.invoked = debounced.invoked]_<<vars, others>>
  /\ <>[](debounced.calls # <<>> => InvocationsFor(Len(debounced.calls)) = 1)

\* With wait 2: a call at 0 and a call at 1 made one burst, func was invoked
\* once, at 3 with the arguments of the second, and a third call came later.
C20_Witness ==
  /\ debounced.op = "debounce" /\ debounced.wait = 2
  /\ Len(debounced.calls) = 3
  /\ debounced.calls[1] = [at |-> 0, args |-> "a"]
  /\ debounced.calls[2] = [at |-> 1, args |-> "b"]
  /\ debounced.calls[3].at = 3
  /\ debounced.invoked = <<[at |-> 3, args |-> "b", id |-> 2]>>

\* ================================================================== throttle
\* One function returned by throttle(func, wait) (utils/index.ts), with the
\* timers and the clock as for debounce: a timer runs when it is due or later.
\* func either returns or throws; when it throws, the statements after it in
\* the returned function do not run and the call throws.
IdleThrottled ==
  [op         |-> "throttle",
   wait       |-> 1,
   now        |-> 0,
   inThrottle |-> FALSE,   \* the closure's variable, undefined at first
   timers     |-> {},      \* the pending timers: [id, due]
   calls      |-> <<>>,    \* the calls made: [at, args]
   invoked    |-> <<>>]    \* the invocations of func: [at, args, id of the call, threw]

\* A variant that never closes the gate.
ThrottledCallUngated(th, args, threw) ==
  LET id == Len(th.calls) + 1
  IN [th EXCEPT !.calls = Append(@, [at |-> th.now, args |-> args]),
                !.invoked = Append(@, [at |-> th.now, args |-> args, id |-> id,
                                       threw |-> threw])]

\* The returned function: if (!inThrottle) { func(...args); inThrottle = true;
\* setTimeout(() => (inThrottle = false), wait); }
ThrottledCall(th, args, threw) ==
  LET id   == Len(th.calls) + 1
      made == [th EXCEPT !.calls = Append(@, [at |-> th.now, args |-> args])]
      ran  == [made EXCEPT !.invoked = Append(@, [at |-> th.now, args |-> args,
                                                  id |-> id, threw |-> threw])]
  IN IF th.inThrottle THEN made
     ELSE IF threw THEN ran
     ELSE [ran EXCEPT !.inThrottle = TRUE,
                      !.timers = @ \cup {[id |-> id, due |-> th.now + th.wait]}]

\* The callback of the timer: () => (inThrottle = false).
ThrottleTimerCallback(th, t) ==
  [th EXCEPT !.timers = @ \ {t}, !.inThrottle = FALSE]

ThrottleInit ==
  /\ ClientParked
  /\ query = NoQuery
  /\ hook = NoHook
  /\ debounced = NoDebounced
  /\ atStart = NoLengths
  /\ store = NoStore
  /\ throttled \in {[IdleThrottled EXCEPT !.wait = w] : w \in 1..MaxWait}

besideThrottled == <<vars, query, hook, debounced, atStart, store>>

\* The application calls the throttled function; func returns or throws.
CallThrottled(args, threw) ==
  /\ Len(throttled.calls) < MaxCalls
  /\ throttled' = ThrottledCall(throttled, args, threw)
  /\ UNCHANGED besideThrottled

\* The pending timer is due and the event loop gets to it.
ThrottleTimerFires ==
  /\ \E t \in throttled.timers :
       /\ t.due <= throttled.now
       /\ throttled' = ThrottleTimerCallback(throttled, t)
  /\ UNCHANGED besideThrottled

\* Time passes, also while a timer that is due waits for the event loop.
ThrottleClockTick ==
  /\ throttled.now < MaxClock
  /\ throttled' = [throttled EXCEPT !.now = @ + 1]
  /\ UNCHANGED besideThrottled

ThrottleNext ==
  \/ \E args \in Args : CallThrottled(args, FALSE)
  \/ \E args \in Args : CallThrottled(args, TRUE)
  \/ ThrottleTimerFires
  \/ ThrottleClockTick

SpecThrottle == ThrottleInit /\ [][ThrottleNext]_<<vars, others>>

\* Call k of the throttled function invoked func; the time of the last
\* invocation of func before call k, -1 when there is none.
InvokedBy(k) == \E j \in 1..Len(throttled.invoked) : throttled.invoked[j].id = k
LastInvocationBefore(k) ==
  LET times == {throttled.invoked[j].at :
                  j \in {h \in 1..Len(throttled.invoked) : throttled.invoked[h].id < k}}
  IN IF times = {} THEN -1 ELSE CHOOSE t \in times : \A u \in times : u <= t

\* C21 (as claimed): the first call invokes func at once with its arguments; a
\* call made less than wait after the last invocation of func is dropped; a
\* call made wait or more after it invokes func at once; two invocations of
\* func are never less than wait apart.
C21_OncePerWindow ==
  LET th == throttled
      n  == Len(th.calls)
  IN /\ n >= 1 => InvokedBy(1)
     /\ \A j \in 1..Len(th.invoked) :
          /\ th.invoked[j].at = th.calls[th.invoked[j].id].at
          /\ th.invoked[j].args = th.calls[th.invoked[j].id].args
          /\ \A h \in 1..(j - 1) :
               /\ th.invoked[h].id < th.invoked[j].id
               /\ th.invoked[j].at - th.invoked[h].at >= th.wait
     /\ \A k \in 2..n :
          /\ th.calls[k].at - LastInvocationBefore(k) < th.wait => ~InvokedBy(k)
          /\ th.calls[k].at - LastInvocationBefore(k) >= th.wait => InvokedBy(k)

\* The invocations of func that returned.
Returned == {j \in 1..Len(throttled.invoked) : ~throttled.invoked[j].threw}

\* C21 (amended): func is invoked within a call alone, at once and with the
\* arguments of the call, at most once for a call; the first call invokes it;
\* after an invocation that returned one timer is pending, due wait after it,
\* and the calls made until that timer has run are dropped, the calls made
\* less than wait after the invocation among them; the first call after the
\* timer has run invokes func; two invocations the earlier of which returned
\* are at least wait apart.
C21_GateUntilTimer ==
  /\ [](LET th == throttled
            n  == Len(th.calls)
        IN /\ n >= 1 => InvokedBy(1)
           /\ Cardinality(th.timers) <= 1
           /\ th.inThrottle <=> th.timers # {}
           /\ \A t \in th.timers :
                \E j \in Returned :
                  /\ th.invoked[j].id = t.id
                  /\ t.due = th.invoked[j].at + th.wait
                  /\ \A h \in 1..Len(th.invoked) : h <= j
           /\ \A j \in 1..Len(th.invoked) :
                /\ th.invoked[j].at = th.calls[th.invoked[j].id].at
                /\ th.invoked[j].args = th.calls[th.invoked[j].id].args
                /\ \A h \in 1..(j - 1) :
                     /\ th.invoked[h].id < th.invoked[j].id
                     /\ h \in Returned =>
                          th.invoked[j].at - th.invoked[h].at >= th.wait
           /\ \A k \in 2..n :
                (\E j \in Returned :
                   /\ th.invoked[j].id < k
                   /\ th.calls[k].at - th.invoked[j].at < th.wait)
                => ~InvokedBy(k))
  /\ [][/\ throttled'.invoked # throttled.invoked
             => /\ throttled'.calls # throttled.calls
                /\ Len(throttled'.invoked) = Len(throttled.invoked) + 1
        /\ throttled'.calls # throttled.calls
             => (throttled'.invoked # throttled.invoked <=> throttled.timers = {})
       ]_<<vars, others>>

\* With wait 2: the call at 0 invoked func, the call at 1 was dropped, the
\* timer ran and the call at 2 invoked func.
C21_Witness ==
  /\ throttled.op = "throttle" /\ throttled.wait = 2
  /\ Len(throttled.calls) = 3
  /\ throttled.calls[2] = [at |-> 1, args |-> "b"]
  /\ throttled.invoked = << [at |-> 0, args |-> "a", id |-> 1, threw |-> FALSE],
                            [at |-> 2, args |-> "a", id |-> 3, threw |-> FALSE] >>

\* =============================================================== users route
\* POST /api/users (app/api/users/route.ts): the module's mockUsers array and
\* the requests being handled.  A handler is suspended once, at
\* await request.json(); what follows runs in one turn of the event loop.
MaxPosts == 3      \* POST requests received

Handlers == {1, 2}     \* requests handled at once

\* The two users the module starts with.
mockUsers ==
  << [id |-> 1, email |-> "john@example.com", roleId |-> 1, roleName |-> "Admin"],
     [id |-> 2, email |-> "jane@example.com", roleId |-> 2, roleName |-> "User"] >>

\* z.string().email(): the texts among the inputs that are email addresses.
IsEmail(text) ==
  text \in {"john@example.com", "jane@example.com", "new@example.com", "amy@example.com"}

\* createUserSchema.parse(body) does not throw.
Validates(body) ==
  /\ body.nameLength >= 1 /\ body.nameLength <= 50
  /\ IsEmail(body.email)
  /\ body.passwordLength >= 6 /\ body.passwordLength <= 20
  /\ body.phone \in {"absent", "string"}
  /\ body.roleId > 0
  /\ body.status \in {"absent", "active", "inactive"}

GoodBody(email, roleId) ==
  [json |-> TRUE, nameLength |-> 4, email |-> email, passwordLength |-> 8,
   phone |-> "absent", roleId |-> roleId, status |-> "absent"]

\* The request bodies sent: well-formed ones for a stored and for new emails,
\* one breaking each rule of the schema, and text that is not JSON.
Bodies ==
  { GoodBody(e, r) : e \in {"john@example.com", "new@example.com", "amy@example.com"},
                     r \in {1, 2} }
    \cup { [GoodBody("new@example.com", 1) EXCEPT !.nameLength = 0],
           [GoodBody("new@example.com", 1) EXCEPT !.nameLength = 51],
           [GoodBody("new@example.com", 1) EXCEPT !.email = "new"],
           [GoodBody("new@example.com", 1) EXCEPT !.passwordLength = 5],
           [GoodBody("new@example.com", 1) EXCEPT !.phone = "number"],
           [GoodBody("new@example.com", 1) EXCEPT !.roleId = 0],
           [GoodBody("new@example.com", 1) EXCEPT !.status = "banned"],
           [GoodBody("john@example.com", 1) EXCEPT !.passwordLength = 21],
           [GoodBody("new@example.com", 1) EXCEPT !.json = FALSE] }

NoBody == [GoodBody("", 0) EXCEPT !.json = FALSE]
IdleRequest == [pc |-> "idle", body |-> NoBody, seq |-> 0, status |-> NoStatus]

\* mockUsers.find((user) => user.email === email) finds a user.
Exists(users, email) == \E k \in 1..Len(users) : users[k].email = email

\* A variant that does not look for the email.
HandleUnchecked(users, body) ==
  IF ~body.json THEN [status |-> 500, users |-> users]
  ELSE IF ~Validates(body) THEN [status |-> 400, users |-> users]
  ELSE [status |-> 201,
        users  |-> Append(users, [id |-> Len(users) + 1, email |-> body.email,
                                  roleId |-> body.roleId,
                                  roleName |-> IF body.roleId = 1 THEN "Admin"
                                               ELSE "User"])]

\* POST after its await: the status it answers with and the array it leaves.
Handle(users, body) ==
  IF ~body.json THEN [status |-> 500, users |-> users]
  ELSE IF ~Validates(body) THEN [status |-> 400, users |-> users]
  ELSE IF Exists(users, body.email) THEN [status |-> 409, users |-> users]
  ELSE [status |-> 201,
        users  |-> Append(users, [id |-> Len(users) + 1, email |-> body.email,
                                  roleId |-> body.roleId,
                                  roleName |-> IF body.roleId = 1 THEN "Admin"
                                               ELSE "User"])]

IdleStore ==
  [op       |-> "users",
   users    |-> mockUsers,                       \* the array mockUsers
   requests |-> [h \in Handlers |-> IdleRequest],
   posts    |-> 0,                               \* requests received
   log      |-> <<>>]                            \* the answers, in order: [seq, status]

StoreInit ==
  /\ ClientParked
  /\ query = NoQuery
  /\ hook = NoHook
  /\ debounced = NoDebounced
  /\ atStart = NoLengths
  /\ throttled = NoThrottled
  /\ store = IdleStore

besideStore == <<vars, query, hook, debounced, atStart, throttled>>

\* A POST request arrives: the handler runs up to await request.json().
Post(h, body) ==
  /\ store.posts < MaxPosts
  /\ store.requests[h].pc # "json"
  /\ store' = [store EXCEPT
                 !.posts = @ + 1,
                 !.requests[h] = [pc |-> "json", body |-> body,
                                  seq |-> store.posts + 1, status |-> NoStatus]]
  /\ UNCHANGED besideStore

\* The body has been read: the handler runs to its return.
PostHandles(h) ==
  /\ store.requests[h].pc = "json"
  /\ LET out == Handle(store.users, store.requests[h].body)
     IN store' = [store EXCEPT
                    !.users = out.users,
                    !.requests[h].pc = "done",
                    !.requests[h].status = out.status,
                    !.log = Append(@, [seq |-> store.requests[h].seq,
                                       status |-> out.status])]
  /\ UNCHANGED besideStore

StoreNext ==
  \/ \E h \in Handlers : \E body \in Bodies : Post(h, body)
  \/ \E h \in Handlers : PostHandles(h)

SpecStore == StoreInit /\ [][StoreNext]_<<vars, others>>

\* ------------------------------------------------------------------ C22
Users == store.users

\* Handler h returns in this step.
Answers(h) == store.requests[h].pc = "json" /\ store'.requests[h].pc = "done"

\* The user a 201 stores: one more at the end, numbered by the size before.
AddsOne(body) ==
  /\ Len(store'.users) = Len(Users) + 1
  /\ SubSeq(store'.users, 1, Len(Users)) = Users
  /\ store'.users[Len(Users) + 1].id = Len(Users) + 1
  /\ store'.users[Len(Users) + 1].email = body.email

NoTwoAlike ==
  \A i, j \in 1..Len(Users) :
    i # j => Users[i].email # Users[j].email /\ Users[i].id # Users[j].id

\* C22 as stated: whatever the order in which POST /api/users requests are
\* received and handled, no two stored users share an email or an id; a POST
\* whose email is stored is answered 409 and one failing validation 400, the
\* store unchanged; a 201 adds one user whose id is the size before plus one.
C22_PostOutcomes ==
  /\ []NoTwoAlike
  /\ [][\A h \in Handlers : Answers(h) =>
          LET body == store.requests[h].body
              status == store'.requests[h].status
          IN /\ (body.json /\ Exists(Users, body.email)) =>
                   status = 409 /\ store'.users = Users
             /\ (body.json /\ ~Validates(body)) =>
                   status = 400 /\ store'.users = Users
             /\ status = 201 => AddsOne(body)
             /\ (body.json /\ Validates(body) /\ ~Exists(Users, body.email)) =>
                   status = 201]_<<vars, others>>

\* C22, validation first: as above, but 409 answers a POST whose body passes
\* validation and whose email is stored when the body has been read; a body
\* failing validation is answered 400 whether its email is stored or not.
C22_ValidationFirst ==
  /\ []NoTwoAlike
  /\ [][\A h \in Handlers : Answers(h) =>
          LET body == store.requests[h].body
              status == store'.requests[h].status
          IN /\ (body.json /\ Validates(body) /\ Exists(Users, body.email)) =>
                   status = 409 /\ store'.users = Users
             /\ (body.json /\ ~Validates(body)) =>
                   status = 400 /\ store'.users = Users
             /\ status = 201 => AddsOne(body)
             /\ status # 201 => store'.users = Users
             /\ (body.json /\ Validates(body) /\ ~Exists(Users, body.email)) =>
                   status = 201]_<<vars, others>>

\* Two requests with the same new email handled at once: the one received
\* second is answered first, 201, and the one received first 409; a third,
\* failing validation, is answered 400.
C22_Witness ==
  /\ store.op = "users"
  /\ Len(store.log) = 3
  /\ store.log[1] = [seq |-> 2, status |-> 201]
  /\ store.log[2] = [seq |-> 1, status |-> 409]
  /\ store.log[3].status = 400
  /\ Len(Users) = 3
  /\ Users[3].id = 3

=============================================================================
